---- MODULE Spec2Model ----
(***************************************************************************)
(* Model of erpnext/stock/doctype/pick_list/pick_list.py: the allocation   *)
(* and reconciliation engine of the Pick List document.                    *)
(*                                                                         *)
(* Quantities are Python floats in the source.  Here every quantity is an  *)
(* integer number of thousandths (Unit = 1.000), so that 0.5, 8.999 and    *)
(* the conversions between UOM and stock quantities are exact.             *)
(***************************************************************************)
EXTENDS Integers, Sequences, FiniteSets, TLC

VARIABLES
    alloc_in,   \* arguments of get_items_with_location_and_quantity
    alloc,      \* per run: the local variables of its while loop
    db,         \* the Pick List table: per pick list its docstatus, status, rows
    bin,        \* the Bin table: actual_qty per item and warehouse
    sn,         \* the Serial No table of item S, ordered by creation
    mem,        \* per pick list: the document in memory during set_item_locations
    so_picked_qty,      \* Sales Order Item.picked_qty per row name
    packed_picked_qty,  \* Packed Item.picked_qty per row name
    over_delivery_receipt_allowance,  \* of Stock Settings, in percent
    hook        \* the last on_submit / on_cancel: its outcome and what it found

allocVars == <<alloc_in, alloc>>
docVars == <<db, bin, sn, mem>>
refVars == <<so_picked_qty, packed_picked_qty, over_delivery_receipt_allowance, hook>>
vars == <<alloc_in, alloc, db, bin, sn, mem, so_picked_qty, packed_picked_qty,
         over_delivery_receipt_allowance, hook>>

----------------------------------------------------------------------------
(* Values *)

Unit == 10 * 10 * 10            \* 1.000 in thousandths
None == "None"                  \* Python None / empty string of a text field
NoCF == 0 - 1                   \* conversion_factor not set (None)

Min(a, b) == IF a <= b THEN a ELSE b

\* F applied to the value of v: a LET whose definition is evaluated once
With(v, F(_)) == CHOOSE r \in { F(x) : x \in {v} } : TRUE

\* frappe.utils.floor on a non-negative quantity, result again in thousandths
floor(x) == (x \div Unit) * Unit

\* frappe.utils.cint on a non-negative quantity: the integer itself
cint(x) == x \div Unit

\* UOM master data: frappe.get_cached_value("UOM", uom, "must_be_whole_number")
must_be_whole_number(uom) == uom = "Nos"

\* (item_doc.conversion_factor or 1)
conversion_factor_or_1(cf) == IF cf = NoCF \/ cf = 0 THEN Unit ELSE cf

RECURSIVE SumSeq(_, _)
\* sum of f over a sequence of records: SumSeq(s, "stock_qty")
SumSeq(s, fld) == IF s = <<>> THEN 0 ELSE Head(s)[fld] + SumSeq(Tail(s), fld)

\* list without its i-th element (list.pop(i))
WithoutAt(s, i) == [k \in 1..(Len(s) - 1) |-> IF k < i THEN s[k] ELSE s[k + 1]]

\* serial_no[:n], the first entries instead of the last
LastN_from_front(s, n) ==
    IF n = 0 \/ n >= Len(s) THEN s
    ELSE [k \in 1..n |-> s[k]]

\* serial_no[-n:] of a Python list
LastN(s, n) ==
    IF n = 0 \/ n >= Len(s) THEN s
    ELSE [k \in 1..n |-> s[Len(s) - n + k]]

----------------------------------------------------------------------------
(* get_items_with_location_and_quantity: the greedy allocator *)

\* alloc_start without the restock rule: always from the line's stock_qty
alloc_start_from_stock_qty(item_doc, available_locations, docstatus) ==
    [ remaining_stock_qty |-> item_doc.stock_qty,
      available_locations |-> available_locations,
      locations |-> <<>>,
      pc |-> "loop" ]

\* lines 586-592: the locals before the loop
alloc_start(item_doc, available_locations, docstatus) ==
    [ remaining_stock_qty |->
          IF docstatus = 1 /\ item_doc.stock_qty = 0
          THEN item_doc.qty ELSE item_doc.stock_qty,
      available_locations |-> available_locations,
      locations |-> <<>>,
      pc |-> "loop" ]

\* line 594: the loop condition
loop_condition(st) ==
    st.remaining_stock_qty > 0 /\ st.available_locations # <<>>

\* take_qty without the comparison of line 598: the whole candidate is taken
take_qty_whole_candidate(item_location, remaining_stock_qty) == item_location.qty

\* lines 598-600: what the candidate can give to the line
take_qty(item_location, remaining_stock_qty) ==
    IF item_location.qty >= remaining_stock_qty
    THEN remaining_stock_qty ELSE item_location.qty

\* lines 601-605: the row's qty in the line's UOM, floored for a whole-number UOM
row_qty(item_doc, take) ==
    LET qty == (take * Unit) \div conversion_factor_or_1(item_doc.conversion_factor)
    IN  IF must_be_whole_number(item_doc.uom) THEN floor(qty) ELSE qty

\* line 606: the row's stock_qty, recomputed for a whole-number UOM from the
\* floored qty and the line's conversion_factor as it is stored
row_stock_qty(item_doc, take, qty) ==
    IF must_be_whole_number(item_doc.uom)
    THEN (qty \div Unit) * item_doc.conversion_factor
    ELSE take

\* lines 595-630: one iteration of the loop, taking the candidate at index i
\* (the source always pops index 0, the front)
loop_body(st, item_doc, i) ==
    LET item_location == st.available_locations[i]
        rest == WithoutAt(st.available_locations, i)
        rem == st.remaining_stock_qty
        cf == item_doc.conversion_factor
        take == take_qty(item_location, rem)
        wn == must_be_whole_number(item_doc.uom)
        qty == row_qty(item_doc, take)
        stock_qty == row_stock_qty(item_doc, take, qty)
        qty_diff == item_location.qty - stock_qty
        shrunk == [item_location EXCEPT
                     !.qty = qty_diff,
                     !.serial_no = IF item_location.serial_no # <<>>
                                   THEN LastN(item_location.serial_no, cint(qty_diff))
                                   ELSE item_location.serial_no]
    IN  IF wn /\ cf = NoCF
        THEN \* line 606: int * None raises TypeError
             [st EXCEPT !.available_locations = rest, !.pc = "raised"]
        ELSE IF wn /\ stock_qty = 0
        THEN \* line 608: break, the popped candidate is not put back
             [st EXCEPT !.available_locations = rest, !.pc = "returned"]
        ELSE [st EXCEPT
                !.locations = Append(st.locations,
                    [ qty |-> qty,
                      stock_qty |-> stock_qty,
                      warehouse |-> item_location.warehouse,
                      serial_and_batch_bundle |-> item_location.serial_and_batch_bundle ]),
                !.remaining_stock_qty = rem - stock_qty,
                !.available_locations =
                    IF qty_diff > 0 THEN <<shrunk>> \o rest ELSE rest]

\* one step of the function: an iteration, or leaving the loop (lines 632-634)
pop_index == 1

alloc_step(st, item_doc) ==
    IF loop_condition(st) THEN loop_body(st, item_doc, pop_index)
    ELSE [st EXCEPT !.pc = "returned"]

RECURSIVE alloc_run(_, _)
alloc_run(st, item_doc) ==
    IF st.pc # "loop" THEN st
    ELSE With(alloc_step(st, item_doc), LAMBDA next : alloc_run(next, item_doc))

\* the whole function: the rows, the queue written back to item_location_map
get_items_with_location_and_quantity(item_doc, available_locations, docstatus) ==
    With(alloc_start(item_doc, available_locations, docstatus),
         LAMBDA st : alloc_run(st, item_doc))

----------------------------------------------------------------------------
(* Master data and tables the engine reads *)

PickLists == {"PL1", "PL2"}

\* Item.is_stock_item
is_stock_item(item_code) == item_code \in {"A", "B", "C", "S"}

\* Product Bundle (new_item_code, disabled = 0): component -> qty per bundle
ProductBundle == [ PB |-> [ A |-> 2 * Unit, B |-> 3 * Unit ] ]

\* frappe.db.exists("Product Bundle", {"new_item_code": item_code, "disabled": 0})
product_bundle_exists(item_code) == item_code \in DOMAIN ProductBundle

\* Bin rows in the order of their creation
BinOrder == <<"W1", "W2">>
BinItems == {"A", "B", "C"}

\* a Pick List Item row
Row(item_code, uom, cf, qty, stock_qty, picked_qty, warehouse, so_item, bundle_item) ==
    [ item_code |-> item_code, uom |-> uom, conversion_factor |-> cf,
      qty |-> qty, stock_qty |-> stock_qty, picked_qty |-> picked_qty,
      warehouse |-> warehouse, batch_no |-> None, serial_no |-> None,
      sales_order_item |-> so_item, material_request_item |-> None,
      product_bundle_item |-> bundle_item, serial_and_batch_bundle |-> None ]

\* frappe.utils.flt(x, precision) of the ratio num / den of two quantities, with
\* precision = 3 digits: the nearest thousandth, a tie going to the even one
flt(num, den) ==
    LET q == num \div den
        r == num % den
    IN  IF 2 * r < den THEN q
        ELSE IF 2 * r > den THEN q + 1
        ELSE IF q % 2 = 0 THEN q ELSE q + 1

RECURSIVE SumSet(_, _)
\* sum of a function's values over a subset of its domain
SumSet(f, S) ==
    IF S = {} THEN 0
    ELSE LET x == CHOOSE y \in S : TRUE IN f[x] + SumSet(f, S \ {x})

\* position of the first element of s with key k under the key function, or 0
FirstAt(keys, k) ==
    IF \E i \in 1..Len(keys) : keys[i] = k
    THEN CHOOSE i \in 1..Len(keys) : keys[i] = k /\ \A j \in 1..(i - 1) : keys[j] # k
    ELSE 0

----------------------------------------------------------------------------
(* PickList.aggregate_item_qty *)

\* line 376
reference(item) ==
    IF item.sales_order_item # None THEN item.sales_order_item
    ELSE item.material_request_item

\* aggregate_key without the UOM
aggregate_key_without_uom(item) ==
    <<item.item_code, None, item.warehouse, item.batch_no, reference(item)>>

\* line 377
aggregate_key(item) ==
    <<item.item_code, item.uom, item.warehouse, item.batch_no, reference(item)>>

\* lines 369-374: the line is kept
is_allocatable(item) ==
    is_stock_item(item.item_code) \/ product_bundle_exists(item.item_code)

RECURSIVE aggregate_lines(_, _, _)
\* lines 366-390: the loop over self.locations, from line i on.  owner[k] is
\* the position in self.locations of the row object that item_map[k] is.
aggregate_lines(locations, i, acc) ==
    IF acc.raised # "none" \/ i > Len(locations) THEN acc
    ELSE LET item == locations[i]
             k == FirstAt([n \in 1..Len(acc.item_map) |-> aggregate_key(acc.item_map[n])],
                          aggregate_key(item))
         IN  IF item.item_code = None
             THEN [acc EXCEPT !.raised = "Item Code is Mandatory"]
             ELSE IF ~is_allocatable(item)
             THEN aggregate_lines(locations, i + 1, acc)
             ELSE With([ acc EXCEPT
                        !.item_map =
                            IF k > 0
                            THEN [@ EXCEPT ![k].qty = @ + item.qty,
                                           ![k].stock_qty = @ + flt(item.stock_qty, 1)]
                            ELSE Append(@, item),
                        !.owner = IF k > 0 THEN @ ELSE Append(@, i),
                        !.item_count_map =
                            [@ EXCEPT ![item.item_code] = @ + flt(item.stock_qty, 1)] ],
                       LAMBDA next : aggregate_lines(locations, i + 1, next))

\* lines 361-392: item_map.values(), item_count_map, and self.locations as the
\* merge leaves it (the first row of each key is summed in place)
aggregate_item_qty(locations) ==
    With(aggregate_lines(locations, 1,
                   [ item_map |-> <<>>, owner |-> <<>>,
                     item_count_map |-> [c \in BinItems \cup {"S"} \cup DOMAIN ProductBundle |-> 0],
                     raised |-> "none" ]),
      LAMBDA acc :
        [ items |-> acc.item_map,
          item_count_map |-> acc.item_count_map,
          raised |-> acc.raised,
          locations |->
              [ n \in 1..Len(locations) |->
                  IF \E k \in 1..Len(acc.owner) : acc.owner[k] = n
                  THEN acc.item_map[CHOOSE k \in 1..Len(acc.owner) : acc.owner[k] = n]
                  ELSE locations[n] ] ])

----------------------------------------------------------------------------
(* PickList.get_picked_items_details: what other open pick lists hold *)

\* picked_rows without the test of the status Completed
picked_rows_any_status(self, item_codes) ==
    { e \in { <<q, i>> : q \in PickLists, i \in 1..3 } :
        /\ e[2] <= Len(db[e[1]].locations)
        /\ db[e[1]].saved
        /\ e[1] # self
        /\ db[e[1]].locations[e[2]].item_code \in item_codes
        /\ \/ db[e[1]].locations[e[2]].picked_qty > 0
           \/ db[e[1]].locations[e[2]].stock_qty > 0
        /\ db[e[1]].status # "Cancelled"
        /\ db[e[1]].docstatus # 2 }

\* lines 463-469, 478: the Pick List Item rows the query selects
picked_rows(self, item_codes) ==
    { e \in { <<q, i>> : q \in PickLists, i \in 1..3 } :
        /\ e[2] <= Len(db[e[1]].locations)
        /\ db[e[1]].saved
        /\ e[1] # self
        /\ db[e[1]].locations[e[2]].item_code \in item_codes
        /\ \/ db[e[1]].locations[e[2]].picked_qty > 0
           \/ db[e[1]].locations[e[2]].stock_qty > 0
        /\ db[e[1]].status # "Completed"
        /\ db[e[1]].status # "Cancelled"
        /\ db[e[1]].docstatus # 2 }

\* line 458: Case().when(picked_qty > 0, picked_qty).else_(stock_qty)
picked_or_stock_qty(row) ==
    IF row.picked_qty > 0 THEN row.picked_qty ELSE row.stock_qty

\* lines 443-493: one entry per (item_code, warehouse, batch_no)
get_picked_items_details(self, items) ==
    LET item_codes == { items[n].item_code : n \in 1..Len(items) }
        rows == picked_rows(self, item_codes)
        rowOf(e) == db[e[1]].locations[e[2]]
        group(e) == <<rowOf(e).item_code, rowOf(e).warehouse, rowOf(e).batch_no>>
    IN  IF items = <<>> THEN {}
        ELSE { [ item_code |-> g[1], warehouse |-> g[2], batch_no |-> g[3],
                 picked_qty |->
                     SumSet([e \in rows |-> picked_or_stock_qty(rowOf(e))],
                            { e \in rows : group(e) = g }) ]
               : g \in { group(e) : e \in rows } }

----------------------------------------------------------------------------
(* The candidate providers *)

\* lines 801-821: one candidate per Bin with stock, oldest Bin first, at most
\* cint(required_qty + total_picked_qty) of them
get_available_item_locations_for_other_item(item_code, required_qty, total_picked_qty) ==
    LET rows == SelectSeq([n \in 1..Len(BinOrder) |->
                              [ warehouse |-> BinOrder[n],
                                qty |-> IF item_code \in DOMAIN bin
                                        THEN bin[item_code][BinOrder[n]] ELSE 0,
                                serial_no |-> <<>>,
                                serial_and_batch_bundle |-> None ]],
                          LAMBDA r : r.qty > 0)
        limit == cint(required_qty + total_picked_qty)
    IN  SubSeq(rows, 1, Min(limit, Len(rows)))

\* line 649: Item.has_serial_no; S is the serialized item of the model, and
\* no item of the model has batches (line 650)
has_serial_no(item_code) == item_code = "S"

\* serial_nos_query with the limit of required_qty alone
serial_nos_query_without_picked(required_qty, total_picked_qty) ==
    LET rows == SelectSeq(sn, LAMBDA r : r.warehouse # None)
        limit == cint(required_qty)
    IN  SubSeq(rows, 1, Min(limit, Len(rows)))

\* lines 698-712: the Serial No rows (name, warehouse) of the item that are in
\* a warehouse, oldest first, at most cint(required_qty + total_picked_qty)
serial_nos_query(required_qty, total_picked_qty) ==
    LET rows == SelectSeq(sn, LAMBDA r : r.warehouse # None)
        limit == cint(required_qty + total_picked_qty)
    IN  SubSeq(rows, 1, Min(limit, Len(rows)))

RECURSIVE warehouse_serial_nos_map(_, _, _)
\* lines 714-720: the first serial numbers by warehouse, one for every unit of
\* required_qty, the warehouses in the order they are first met
warehouse_serial_nos_map(serial_nos, picked_qty, map) ==
    IF serial_nos = <<>> \/ picked_qty <= 0 THEN map
    ELSE LET r == Head(serial_nos)
             at == FirstAt([n \in 1..Len(map) |-> map[n].warehouse], r.warehouse)
         IN  With(IF at = 0
                  THEN Append(map, [ warehouse |-> r.warehouse, serial_nos |-> <<r.name>> ])
                  ELSE [ map EXCEPT ![at].serial_nos = Append(@, r.name) ],
                  LAMBDA next :
                    warehouse_serial_nos_map(Tail(serial_nos), picked_qty - Unit, next))

\* lines 726-737: the name of the Serial and Batch Bundle made for the serial
\* numbers taken from a warehouse
make_serial_and_batch_bundle(warehouse) ==
    IF warehouse = "W1" THEN "SABB-W1" ELSE "SABB-W2"

\* lines 695-749: one candidate per warehouse, its qty the number of serial
\* numbers taken from it
get_available_item_locations_for_serialized_item(item_code, required_qty, total_picked_qty) ==
    LET serial_nos == serial_nos_query(required_qty, total_picked_qty)
        map == warehouse_serial_nos_map(serial_nos, required_qty, <<>>)
    IN  [n \in 1..Len(map) |->
            [ warehouse |-> map[n].warehouse,
              qty |-> Len(map[n].serial_nos) * Unit,
              serial_no |-> <<>>,
              serial_and_batch_bundle |-> make_serial_and_batch_bundle(map[n].warehouse) ]]

\* get_available_item_locations with the second message outside the test of
\* picked_item_details
get_available_item_locations_unguarded(item_code, required_qty, picked_item_details) ==
    LET total_picked_qty ==
            SumSet([d \in picked_item_details |-> d.picked_qty], picked_item_details)
        locations ==
            IF has_serial_no(item_code)
            THEN get_available_item_locations_for_serialized_item(
                     item_code, required_qty, total_picked_qty)
            ELSE get_available_item_locations_for_other_item(
                     item_code, required_qty, total_picked_qty)
        short == required_qty - SumSeq(locations, "qty") > 0
        filtered == IF picked_item_details # {}
                    THEN SelectSeq(locations, LAMBDA l : ~(l.qty < 1 * Unit))
                    ELSE locations
        still_short == required_qty - SumSeq(filtered, "qty") > 0
    IN  [ locations |-> filtered,
          provided |-> locations,
          queried |-> IF has_serial_no(item_code)
                      THEN serial_nos_query(required_qty, total_picked_qty) ELSE <<>>,
          msgs |-> (IF short THEN <<"Insufficient Stock">> ELSE <<>>)
                   \o (IF still_short THEN <<"Already Picked">> ELSE <<>>) ]

\* lines 637-692: the candidates returned, the messages shown and, for the
\* properties, the candidates as the provider gave them (provided) and the
\* Serial No rows its query returned (queried)
get_available_item_locations(item_code, required_qty, picked_item_details) ==
    LET total_picked_qty ==
            SumSet([d \in picked_item_details |-> d.picked_qty], picked_item_details)
        locations ==
            IF has_serial_no(item_code)
            THEN get_available_item_locations_for_serialized_item(
                     item_code, required_qty, total_picked_qty)
            ELSE get_available_item_locations_for_other_item(
                     item_code, required_qty, total_picked_qty)
        short == required_qty - SumSeq(locations, "qty") > 0
        filtered == IF picked_item_details # {}
                    THEN SelectSeq(locations, LAMBDA l : ~(l.qty < 1 * Unit))
                    ELSE locations
        still_short == required_qty - SumSeq(filtered, "qty") > 0
    IN  [ locations |-> filtered,
          provided |-> locations,
          queried |-> IF has_serial_no(item_code)
                      THEN serial_nos_query(required_qty, total_picked_qty) ELSE <<>>,
          msgs |-> (IF short THEN <<"Insufficient Stock">> ELSE <<>>)
                   \o (IF picked_item_details # {} /\ still_short
                       THEN <<"Already Picked">> ELSE <<>>) ]

----------------------------------------------------------------------------
(* PickList.set_item_locations *)

\* lines 322-329
location_key(location) ==
    <<location.item_code, location.warehouse, location.uom, location.batch_no,
      location.serial_no, reference(location)>>

\* as_location that does not carry the line's picked_qty
as_location_without_picked_qty(item_doc, row) ==
    [item_doc EXCEPT !.qty = row.qty, !.stock_qty = row.stock_qty,
                     !.warehouse = row.warehouse,
                     !.serial_and_batch_bundle = row.serial_and_batch_bundle,
                     !.picked_qty = 0]

\* lines 320-321: item_doc.as_dict() updated with the allocator's row
as_location(item_doc, row) ==
    [item_doc EXCEPT !.qty = row.qty, !.stock_qty = row.stock_qty,
                     !.warehouse = row.warehouse,
                     !.serial_and_batch_bundle = row.serial_and_batch_bundle]

RECURSIVE merge_rows(_, _, _, _)
\* lines 319-335: the rows of one line go into updated_locations
merge_rows(item_doc, rows, n, updated_locations) ==
    IF n > Len(rows) THEN updated_locations
    ELSE LET location == as_location(item_doc, rows[n])
             k == FirstAt([m \in 1..Len(updated_locations) |->
                              location_key(updated_locations[m])],
                          location_key(location))
         IN  With(IF k = 0 THEN Append(updated_locations, location)
                  ELSE [updated_locations EXCEPT
                          ![k].qty = @ + location.qty,
                          ![k].stock_qty = @ + location.stock_qty],
                  LAMBDA next : merge_rows(item_doc, rows, n + 1, next))

\* allocate_line without the setdefault: every line of the item is given the
\* provider's candidates anew
allocate_line_fresh_queue(item_doc, item_count_map, picked_items_details, docstatus, item_location_map) ==
    With(get_available_item_locations(
             item_doc.item_code, item_count_map[item_doc.item_code],
             { d \in picked_items_details : d.item_code = item_doc.item_code }),
         LAMBDA found :
           With(get_items_with_location_and_quantity(item_doc, found.locations, docstatus),
                LAMBDA run : [ found |-> found, run |-> run ]))

\* lines 301-314 for one aggregated line: the provider's answer, the queue the
\* allocator is given and what the allocator returns
allocate_line(item_doc, item_count_map, picked_items_details, docstatus, item_location_map) ==
    With(get_available_item_locations(
             item_doc.item_code, item_count_map[item_doc.item_code],
             { d \in picked_items_details : d.item_code = item_doc.item_code }),
         LAMBDA found :
           \* setdefault: the provider is called for every line, its result is
           \* kept only for the first line of the item
           With(get_items_with_location_and_quantity(
                    item_doc,
                    IF item_doc.item_code \in DOMAIN item_location_map
                    THEN item_location_map[item_doc.item_code] ELSE found.locations,
                    docstatus),
                LAMBDA run : [ found |-> found, run |-> run ]))

RECURSIVE allocate_items(_, _, _, _, _)
\* lines 298-335: the loop over the aggregated lines, from line i on
allocate_items(items, item_count_map, picked_items_details, docstatus, acc) ==
    IF acc.raised # "none" \/ Len(acc.per_line) + 1 > Len(items) THEN acc
    ELSE LET item_doc == items[Len(acc.per_line) + 1]
             item_code == item_doc.item_code
         IN  With(allocate_line(item_doc, item_count_map, picked_items_details,
                                docstatus, acc.item_location_map),
               LAMBDA r :
                 With([ item_location_map |->
                            [c \in DOMAIN acc.item_location_map \cup {item_code} |->
                                IF c = item_code THEN r.run.available_locations
                                ELSE acc.item_location_map[c]],
                        fetched |->
                            [c \in DOMAIN acc.fetched \cup {item_code} |->
                                IF c \in DOMAIN acc.fetched THEN acc.fetched[c]
                                ELSE r.found.locations],
                        provided |->
                            [c \in DOMAIN acc.provided \cup {item_code} |->
                                IF c \in DOMAIN acc.provided THEN acc.provided[c]
                                ELSE r.found.provided],
                        queried |->
                            [c \in DOMAIN acc.queried \cup {item_code} |->
                                IF c \in DOMAIN acc.queried THEN acc.queried[c]
                                ELSE r.found.queried],
                        updated_locations |->
                            merge_rows(item_doc, r.run.locations, 1, acc.updated_locations),
                        per_line |-> Append(acc.per_line, r.run.locations),
                        msgs |-> acc.msgs \o r.found.msgs,
                        raised |-> IF r.run.pc = "raised" THEN "TypeError" ELSE "none" ],
                      LAMBDA next :
                        allocate_items(items, item_count_map, picked_items_details,
                                       docstatus, next)))

\* clamp_picked_qty without the clamp
clamp_picked_qty_skipped(location) == location

\* lines 337-339
clamp_picked_qty(location) ==
    IF location.picked_qty > location.stock_qty
    THEN [location EXCEPT !.picked_qty = location.stock_qty]
    ELSE location

\* lines 346-348
zeroed(location) == [location EXCEPT !.stock_qty = 0, !.picked_qty = 0]

\* lines 337-356: the clamp, and the fallback of a submitted pick list
finish_locations(doc, agg, picked_items_details, out) ==
    LET clamped == [n \in 1..Len(out.updated_locations) |->
                       clamp_picked_qty(out.updated_locations[n])]
        fallback == out.updated_locations = <<>> /\ doc.docstatus = 1
    IN  [ raised |-> out.raised,
          locations |->
              IF fallback
              THEN [n \in 1..Len(agg.locations) |-> zeroed(agg.locations[n])]
              ELSE clamped,
          items |-> agg.items,
          item_count_map |-> agg.item_count_map,
          per_line |-> out.per_line,
          picked_items_details |-> picked_items_details,
          fetched |-> out.fetched,
          provided |-> out.provided,
          queried |-> out.queried,
          msgs |-> out.msgs \o (IF fallback THEN <<"Out of Stock">> ELSE <<>>) ]

\* lines 283-335 once aggregate_item_qty has returned
allocate_document(self, doc, agg) ==
    With(get_picked_items_details(self, agg.items),
      LAMBDA picked_items_details :
        With(allocate_items(agg.items, agg.item_count_map, picked_items_details,
                 doc.docstatus,
                 [ item_location_map |-> <<>>, fetched |-> <<>>, provided |-> <<>>,
                   queried |-> <<>>,
                   updated_locations |-> <<>>, per_line |-> <<>>,
                   msgs |-> <<>>, raised |-> "none" ]),
             LAMBDA out : finish_locations(doc, agg, picked_items_details, out)))

\* validate_for_qty without the test
validate_for_qty_skipped(doc) == "none"

\* lines 394-398: the exception validate_for_qty raises, if any
validate_for_qty(doc) ==
    IF doc.purpose = "Material Transfer for Manufacture" /\ doc.for_qty = 0
    THEN "Qty of Finished Goods Item should be greater than 0." ELSE "none"

\* the result of a run that an exception ended: self.locations is as the
\* exception found it
raised_with(raised, locations) ==
    [ raised |-> raised, locations |-> locations, items |-> <<>>,
      item_count_map |-> <<>>,
      per_line |-> <<>>, picked_items_details |-> {}, fetched |-> <<>>,
      provided |-> <<>>, queried |-> <<>>, msgs |-> <<>> ]

\* lines 281-356 on the document doc of the pick list self: the document's
\* new locations, the messages shown and, for the properties, what the run
\* read (picked_items_details, fetched) and gave to each aggregated line
\* (items, item_count_map, per_line)
set_item_locations_of(self, doc) ==
    IF validate_for_qty(doc) # "none"
    THEN raised_with(validate_for_qty(doc), doc.locations)
    ELSE With(aggregate_item_qty(doc.locations),
           LAMBDA agg :
             IF agg.raised # "none"
             THEN raised_with(agg.raised, agg.locations)
             ELSE allocate_document(self, doc, agg))

\* lines 281-356 on the document as it is stored
set_item_locations(self) == set_item_locations_of(self, db[self])

----------------------------------------------------------------------------
(* Sales Order data the hooks read and write *)

\* Sales Order Item.item_code: SO1 is the row of the bundle PB, SO2 a row of A
sales_order_item_code == [ SO1 |-> "PB", SO2 |-> "A" ]
PackedItems == {"PKA", "PKB", "PKC"}

\* a ratio num / den of two quantities
Ratio(num, den) == <<num, den>>
RatioLess(a, b) == a[1] * b[2] < b[1] * a[2]

RECURSIVE MinRatio(_)
\* min() of a non-empty list of ratios
MinRatio(s) ==
    IF Len(s) = 1 THEN s[1]
    ELSE LET m == MinRatio(Tail(s)) IN IF RatioLess(m, s[1]) THEN m ELSE s[1]

----------------------------------------------------------------------------
(* The bundle fulfilment calculator *)

\* lines 495-506: the bundle rows of the Sales Order the pick list has rows for
get_product_bundles(locations) ==
    { locations[n].product_bundle_item : n \in 1..Len(locations) } \ {None}

\* lines 523-530: picked_qty / qty_in_bundle of every row of the bundle, 0 for
\* a row whose item has no (or a zero) qty in the bundle
possible_bundles(locations, bundle_row, bundle_items) ==
    LET rows == SelectSeq(locations, LAMBDA l : l.product_bundle_item = bundle_row)
        qty_in_bundle(l) ==
            IF l.item_code \in DOMAIN bundle_items THEN bundle_items[l.item_code] ELSE 0
    IN  [ n \in 1..Len(rows) |->
            IF qty_in_bundle(rows[n]) # 0
            THEN Ratio(rows[n].picked_qty, qty_in_bundle(rows[n]))
            ELSE Ratio(0, 1) ]

\* line 531: int(flt(min(possible_bundles), precision or 6))
int_flt_min(ratios) ==
    LET m == MinRatio(ratios) IN flt(m[1] * Unit, m[2]) \div Unit

\* lines 518-531
compute_picked_qty_for_bundle(locations, bundle_row, bundle_items) ==
    int_flt_min(possible_bundles(locations, bundle_row, bundle_items))

\* direction without the test of docstatus: the count is always added
direction_always_add(docstatus) == 1

\* line 440: +1 on a submitted document, -1 otherwise
direction(docstatus) == IF docstatus = 1 THEN 1 ELSE 0 - 1

\* lines 428-441: Sales Order Item.picked_qty after the bundle rows are updated
update_bundle_picked_qty(locations, docstatus, so) ==
    [ so_row \in DOMAIN so |->
        IF so_row \in get_product_bundles(locations)
        THEN so[so_row]
             + compute_picked_qty_for_bundle(locations, so_row,
                   ProductBundle[sales_order_item_code[so_row]])
               * Unit * direction(docstatus)
        ELSE so[so_row] ]

----------------------------------------------------------------------------
(* The over-allocation guard *)

\* lines 560-577: per sales_order_item, the sums over the rows of all
\* submitted pick lists
get_picked_items_qty(dbv, items) ==
    LET rows == { e \in { <<q, i>> : q \in PickLists, i \in 1..3 } :
                    /\ e[2] <= Len(dbv[e[1]].locations)
                    /\ dbv[e[1]].saved
                    /\ dbv[e[1]].docstatus = 1
                    /\ dbv[e[1]].locations[e[2]].sales_order_item \in items }
        rowOf(e) == dbv[e[1]].locations[e[2]]
    IN  { [ sales_order_item |-> g,
            stock_qty |-> SumSet([e \in rows |-> rowOf(e).stock_qty],
                                 { e \in rows : rowOf(e).sales_order_item = g }),
            picked_qty |-> SumSet([e \in rows |-> rowOf(e).picked_qty],
                                  { e \in rows : rowOf(e).sales_order_item = g }) ]
          : g \in { rowOf(e).sales_order_item : e \in rows } }

\* line 273 for one row of data: the division, then the comparison
validate_row(row, allowance) ==
    IF row.stock_qty = 0 THEN "ZeroDivisionError"
    ELSE IF row.picked_qty * 100 > (100 + allowance) * row.stock_qty
    THEN "OverAllocation"
    ELSE "ok"

\* lines 267-278: "ok", or the exception of a row that has one (the rows come
\* in the order the database returns the groups in)
validate_picked_qty(data, allowance) ==
    IF \A row \in data : validate_row(row, allowance) = "ok" THEN {"ok"}
    ELSE { validate_row(row, allowance) : row \in data } \ {"ok"}

\* picked_qty.get(name) of lines 189-198 and 206-215
picked_qty_of(data, name) ==
    IF \E d \in data : d.sales_order_item = name
    THEN (CHOOSE d \in data : d.sales_order_item = name).picked_qty
    ELSE 0

\* lines 173-177
packed_items_of(locations) ==
    { locations[n].sales_order_item :
        n \in { m \in 1..Len(locations) : locations[m].product_bundle_item # None } }
    \ {None}

so_items_of(locations) ==
    { locations[n].sales_order_item :
        n \in { m \in 1..Len(locations) : locations[m].product_bundle_item = None } }
    \ {None}

\* lines 97-98 and 116-117: update_bundle_picked_qty, then update_reference_qty
\* (update_packed_items_qty, then update_sales_order_item_qty); every way the
\* calls can end: the exception raised, if any, and the tables as they are then
update_picked_quantities(dbv, self, so, packed, allowance) ==
    LET locations == dbv[self].locations
        so1 == update_bundle_picked_qty(locations, dbv[self].docstatus, so)
        packed_items == packed_items_of(locations)
        so_items == so_items_of(locations)
        data1 == get_picked_items_qty(dbv, packed_items)
        v1 == IF packed_items = {} THEN {"ok"} ELSE validate_picked_qty(data1, allowance)
        packed1 == [ n \in DOMAIN packed |->
                       IF n \in packed_items THEN flt(picked_qty_of(data1, n), 1)
                       ELSE packed[n] ]
        data2 == get_picked_items_qty(dbv, so_items)
        v2 == IF so_items = {} THEN {"ok"} ELSE validate_picked_qty(data2, allowance)
        so2 == [ n \in DOMAIN so1 |->
                   IF n \in so_items THEN flt(picked_qty_of(data2, n), 1) ELSE so1[n] ]
    IN  IF v1 # {"ok"}
        THEN { [ raised |-> e, so |-> so1, packed |-> packed ] : e \in v1 }
        ELSE IF v2 # {"ok"}
        THEN { [ raised |-> e, so |-> so1, packed |-> IF packed_items = {} THEN packed ELSE packed1 ]
               : e \in v2 }
        ELSE { [ raised |-> "none",
                 so |-> IF so_items = {} THEN so1 ELSE so2,
                 packed |-> IF packed_items = {} THEN packed ELSE packed1 ] }

\* lines 80-92: validate_picked_items without scan_mode
validate_picked_items(locations) ==
    [ n \in 1..Len(locations) |->
        IF locations[n].picked_qty = 0
        THEN [locations[n] EXCEPT !.picked_qty = locations[n].stock_qty]
        ELSE locations[n] ]

----------------------------------------------------------------------------
(* The states of the parts a specification does not use *)

NoDoc ==
    [ saved |-> FALSE, docstatus |-> 0, status |-> "Draft", locations |-> <<>>,
      purpose |-> "Delivery", for_qty |-> 0 ]

IdleMem ==
    [ pc |-> "idle", locations |-> <<>>, items |-> <<>>,
      item_count_map |-> <<>>, per_line |-> <<>>,
      picked_items_details |-> {}, fetched |-> <<>>, provided |-> <<>>,
      queried |-> <<>>, msgs |-> <<>>, alone |-> TRUE, raised |-> "none" ]

NoStock == [ c \in BinItems |-> [ w \in {"W1", "W2"} |-> 0 ] ]

NoHook ==
    [ op |-> "none", doc |-> None, raised |-> "none",
      so_before |-> [ n \in DOMAIN sales_order_item_code |-> 0 ],
      packed_before |-> [ n \in PackedItems |-> 0 ],
      at_submit |-> [ p \in PickLists |-> <<>> ],
      data |-> {} ]

NoAlloc == [ item_doc |-> None, queue |-> <<>>, docstatus |-> 0 ]

InitRefs ==
    /\ so_picked_qty = [ n \in DOMAIN sales_order_item_code |-> 0 ]
    /\ packed_picked_qty = [ n \in PackedItems |-> 0 ]
    /\ hook = NoHook

----------------------------------------------------------------------------
(* The allocator on its own: SpecAlloc draws the arguments and runs the     *)
(* loop of two independent calls, one iteration per step.                  *)

MaxQueue == 2
Runs == {1, 2}
Warehouses == <<"W1", "W2", "W3">>
CandQtys == {1 * Unit, 3 * Unit, 4 * Unit, 20 * Unit}
ReqQtys == {1 * Unit, 3 * Unit, 10 * Unit}
ConversionFactors == {NoCF, 0, Unit \div 2, Unit, 2 * Unit}

Candidate(w, q) ==
    [warehouse |-> w, qty |-> q, serial_no |-> <<>>, serial_and_batch_bundle |-> None]

\* a candidate that carries its serial numbers, as many as its qty, named by
\* their order
MaxSerialQty == 4
SerialCandidate(w, q) ==
    [ Candidate(w, q) EXCEPT !.serial_no = [k \in 1..cint(q) |-> k] ]

\* the candidates a warehouse can give: of every qty, with and without serial
\* numbers
CandidatesOf(w) ==
    { Candidate(w, q) : q \in CandQtys }
    \cup { SerialCandidate(w, q) : q \in { x \in CandQtys : x <= MaxSerialQty * Unit } }

\* ordered candidate lists as a provider returns them: one per warehouse
AllocQueues ==
    UNION { { f \in [1..n -> UNION { CandidatesOf(Warehouses[k]) : k \in 1..n }] :
                \A k \in 1..n : f[k].warehouse = Warehouses[k] }
            : n \in 0..Min(MaxQueue, Len(Warehouses)) }

\* an aggregated requirement line; a saved line has stock_qty = qty * factor,
\* a line zeroed by the out-of-stock fallback has stock_qty = 0
AllocItemDocs ==
    { [ item_code |-> "A", uom |-> u, conversion_factor |-> cf, qty |-> q,
        stock_qty |-> IF z THEN 0 ELSE (q * conversion_factor_or_1(cf)) \div Unit ]
      : u \in {"Kg", "Nos"}, cf \in ConversionFactors, q \in ReqQtys, z \in BOOLEAN }

InitAlloc ==
    /\ alloc_in \in [ item_doc : AllocItemDocs, queue : AllocQueues, docstatus : {0, 1} ]
    /\ alloc_in.queue # <<>>
    /\ alloc_in.item_doc.stock_qty = 0 => alloc_in.docstatus = 1
    /\ alloc = [r \in Runs |->
                  alloc_start(alloc_in.item_doc, alloc_in.queue, alloc_in.docstatus)]
    /\ db = [ p \in PickLists |-> NoDoc ]
    /\ bin = NoStock
    /\ sn = <<>>
    /\ mem = [ p \in PickLists |-> IdleMem ]
    /\ over_delivery_receipt_allowance = 0
    /\ InitRefs

\* LoopIteration popping any candidate of the queue instead of the front one
LoopIteration_pop_any(r) ==
    /\ alloc[r].pc = "loop"
    /\ loop_condition(alloc[r])
    /\ \E i \in 1..Len(alloc[r].available_locations) :
          alloc' = [alloc EXCEPT ![r] = loop_body(alloc[r], alloc_in.item_doc, i)]
    /\ UNCHANGED <<alloc_in, docVars, refVars>>

\* lines 594-630
LoopIteration(r) ==
    /\ alloc[r].pc = "loop"
    /\ loop_condition(alloc[r])
    /\ alloc' = [alloc EXCEPT ![r] = loop_body(alloc[r], alloc_in.item_doc, pop_index)]
    /\ UNCHANGED <<alloc_in, docVars, refVars>>

\* LoopExit that does not return
LoopExit_without_return(r) ==
    /\ alloc[r].pc = "loop"
    /\ ~loop_condition(alloc[r])
    /\ alloc' = alloc
    /\ UNCHANGED <<alloc_in, docVars, refVars>>

\* lines 632-634
LoopExit(r) ==
    /\ alloc[r].pc = "loop"
    /\ ~loop_condition(alloc[r])
    /\ alloc' = [alloc EXCEPT ![r].pc = "returned"]
    /\ UNCHANGED <<alloc_in, docVars, refVars>>

NextAlloc == \E r \in Runs : LoopIteration(r) \/ LoopExit(r)

SpecAlloc == InitAlloc /\ [][NextAlloc]_vars

\* the calls run on: Python executes the next statement of a call that has
\* not returned
SpecAllocFair == SpecAlloc /\ \A r \in Runs : WF_vars(LoopIteration(r) \/ LoopExit(r))

----------------------------------------------------------------------------
(* The documents: saving, submitting and cancelling pick lists, and stock   *)
(* moving in the warehouses                                                *)

MaxReq == 2
MaxStock == 2
\* runs are followed while no row of the pick list has a qty above this
MaxLineQty == 2
\* the Bin table with the warehouses empty (NoStock) and filled
FullStock == [ NoStock EXCEPT !["A"] = [ W1 |-> MaxStock * Unit, W2 |-> Unit ] ]
\* half a unit left in one warehouse
LowStock == [ NoStock EXCEPT !["A"] = [ W1 |-> Unit \div 2, W2 |-> 0 ] ]

\* a requirement line of item A as the user enters it, not yet allocated
Line(uom, cf, qty) ==
    Row("A", uom, cf, qty, (qty * conversion_factor_or_1(cf)) \div Unit, 0, None, None, None)

\* a line of 1 Kg of A for which the user chose the warehouse and the serial_no
SerialLine(warehouse, serial_no) ==
    [ Line("Kg", Unit, Unit) EXCEPT !.warehouse = warehouse, !.serial_no = serial_no ]

\* a line with the picked_qty the user entered
PickedLine(qty, picked_qty) == [ Line("Kg", Unit, qty) EXCEPT !.picked_qty = picked_qty ]

\* a line without an item code
BlankLine == [ Line("Kg", Unit, Unit) EXCEPT !.item_code = None ]

DraftChoices ==
    { <<Line("Kg", Unit, q * Unit)>> : q \in 1..MaxReq }
    \cup { <<Line("Nos", 2 * Unit, Unit)>>,
           <<Line("Nos", NoCF, Unit)>>,
           <<Line("Kg", Unit, Unit), Line("Nos", 2 * Unit, Unit)>>,
           <<SerialLine("W1", "S1"), SerialLine("W2", "S2")>>,
           <<PickedLine(MaxReq * Unit, MaxReq * Unit)>>,
           <<Line("Kg", Unit, Unit), Line("Kg", Unit, Unit), BlankLine>> }

\* the purpose of a new pick list and its for_qty (0: not entered)
PurposeChoices ==
    { <<"Delivery", 0>>, <<"Material Transfer for Manufacture", 0>>,
      <<"Material Transfer for Manufacture", Unit>> }

InitDoc ==
    /\ \E c \in DraftChoices, u \in PurposeChoices :
          /\ u[1] # "Delivery" => c = <<Line("Kg", Unit, Unit)>>
          /\ db = [ p \in PickLists |->
                     IF p = "PL1"
                     THEN [ NoDoc EXCEPT !.locations = c, !.purpose = u[1], !.for_qty = u[2] ]
                     ELSE [ NoDoc EXCEPT !.locations = <<Line("Kg", Unit, MaxReq * Unit)>> ] ]
    /\ bin = FullStock
    /\ sn = <<>>
    /\ mem = [ p \in PickLists |-> IdleMem ]
    /\ over_delivery_receipt_allowance = 0
    /\ InitRefs
    /\ alloc_in = NoAlloc
    /\ alloc = [ r \in Runs |-> alloc_start(Line("Kg", Unit, 0), <<>>, 0) ]

\* set_item_locations (lines 281-356) on the document in memory, called by
\* before_save (line 45) or from the form on a submitted pick list
Engine(p) ==
    /\ hook.raised = "none"
    /\ mem[p].pc = "idle"
    /\ db[p].docstatus \in {0, 1}
    /\ \A n \in 1..Len(db[p].locations) : db[p].locations[n].qty <= MaxLineQty * Unit
    /\ \E r \in {set_item_locations(p)} :
           mem' = [ mem EXCEPT ![p] =
                     [ pc |-> IF r.raised = "none" THEN "allocated" ELSE "raised",
                       locations |-> r.locations, items |-> r.items,
                       item_count_map |-> r.item_count_map,
                       per_line |-> r.per_line,
                       picked_items_details |-> r.picked_items_details,
                       fetched |-> r.fetched, provided |-> r.provided,
                       queried |-> r.queried,
                       msgs |-> r.msgs,
                       alone |-> \A q \in PickLists \ {p} : mem[q].pc = "idle",
                       raised |-> r.raised ] ]
    /\ UNCHANGED <<db, bin, sn, allocVars, refVars>>

\* the save that follows (line 359, or the save before_save belongs to): the
\* rows in memory become the rows of the Pick List Item table
Commit(p) ==
    /\ hook.raised = "none"
    /\ mem[p].pc = "allocated"
    /\ db' = [ db EXCEPT ![p].saved = TRUE,
                         ![p].locations = mem[p].locations,
                         ![p].status = IF db[p].docstatus = 0 THEN "Draft" ELSE @ ]
    /\ mem' = [ mem EXCEPT ![p] = IdleMem ]
    /\ UNCHANGED <<bin, sn, allocVars, refVars>>

\* an exception left set_item_locations: nothing is saved
Abort(p) ==
    /\ mem[p].pc = "raised"
    /\ mem' = [ mem EXCEPT ![p] = IdleMem ]
    /\ UNCHANGED <<db, bin, sn, allocVars, refVars>>

\* what on_submit and on_cancel leave behind; for the properties the hook
\* record keeps the counters as they were before, the rows of each pick list
\* as submitted and the sums the guard is given
Hooked(op, p, db1, res) ==
    /\ db' = db1
    /\ so_picked_qty' = res.so
    /\ packed_picked_qty' = res.packed
    /\ hook' = [ op |-> op, doc |-> p, raised |-> res.raised,
                 so_before |-> so_picked_qty, packed_before |-> packed_picked_qty,
                 at_submit |-> IF op = "on_submit"
                               THEN [ hook.at_submit EXCEPT ![p] = db1[p].locations ]
                               ELSE hook.at_submit,
                 data |-> get_picked_items_qty(db1,
                              packed_items_of(db1[p].locations)
                              \cup so_items_of(db1[p].locations)) ]

\* before_submit (lines 57-59) and on_submit (lines 94-99)
Submit(p) ==
    /\ hook.raised = "none"
    /\ mem[p].pc = "idle"
    /\ db[p].saved
    /\ db[p].docstatus = 0
    /\ LET db1 == [ db EXCEPT ![p].docstatus = 1,
                              ![p].status = "Open",
                              ![p].locations = validate_picked_items(@) ]
       IN  \E res \in update_picked_quantities(db1, p, so_picked_qty,
                                               packed_picked_qty,
                                               over_delivery_receipt_allowance) :
              Hooked("on_submit", p, db1, res)
    /\ UNCHANGED <<bin, sn, mem, over_delivery_receipt_allowance, allocVars>>

\* on_cancel (lines 108-119)
Cancel(p) ==
    /\ hook.raised = "none"
    /\ mem[p].pc = "idle"
    /\ db[p].docstatus = 1
    /\ LET db1 == [ db EXCEPT ![p].docstatus = 2, ![p].status = "Cancelled" ]
       IN  \E res \in update_picked_quantities(db1, p, so_picked_qty,
                                               packed_picked_qty,
                                               over_delivery_receipt_allowance) :
              Hooked("on_cancel", p, db1, res)
    /\ UNCHANGED <<bin, sn, mem, over_delivery_receipt_allowance, allocVars>>

\* stock movements outside the pick lists empty or refill the warehouses
StockChange(b) ==
    /\ hook.raised = "none"
    /\ bin # b
    /\ bin' = b
    /\ UNCHANGED <<db, sn, mem, allocVars, refVars>>

\* a Delivery Note or Stock Entry is made from the submitted pick list and
\* update_pick_list_status (lines 554-557) runs update_status (lines 154-167)
Complete(p) ==
    /\ hook.raised = "none"
    /\ db[p].docstatus = 1
    /\ db[p].status = "Open"
    /\ db' = [ db EXCEPT ![p].status = "Completed" ]
    /\ UNCHANGED <<bin, sn, mem, allocVars, refVars>>

NextDoc ==
    \/ \E p \in PickLists :
          Engine(p) \/ Commit(p) \/ Abort(p) \/ Submit(p) \/ Cancel(p) \/ Complete(p)
    \/ \E b \in {NoStock, LowStock, FullStock} : StockChange(b)

Spec == InitDoc /\ [][NextDoc]_vars

----------------------------------------------------------------------------
(* The lines of a draft: a pick list of up to MaxLines lines of stock,     *)
(* non-stock and bundle items, with and without warehouse and reference,   *)
(* is allocated and saved while the stock changes                          *)

MaxLines == 2

\* half a unit in the oldest Bin, a unit in the next
SplitStock == [ NoStock EXCEPT !["A"] = [ W1 |-> Unit \div 2, W2 |-> Unit ] ]

\* the lines a user can enter: of the stock item A, of the non-stock item N
\* and of the Product Bundle PB
LineChoices ==
    { Line("Kg", Unit, Unit),
      Line("Nos", 2 * Unit, Unit),
      [ Line("Kg", Unit, Unit) EXCEPT !.warehouse = "W1" ],
      [ Line("Kg", Unit, Unit) EXCEPT !.sales_order_item = "SO2" ],
      [ Line("Kg", Unit, Unit) EXCEPT !.material_request_item = "MR1" ],
      [ Line("Kg", Unit, Unit) EXCEPT !.batch_no = "B1" ],
      [ Line("Kg", Unit, Unit) EXCEPT !.item_code = "N" ],
      [ Line("Kg", Unit, Unit) EXCEPT !.item_code = "PB" ],
      PickedLine(MaxReq * Unit, Unit),
      BlankLine }

InitLines ==
    /\ \E n \in 1..MaxLines : \E c \in [1..n -> LineChoices] :
          db = [ p \in PickLists |->
                   [ NoDoc EXCEPT !.locations =
                       IF p = "PL1" THEN c ELSE <<Line("Kg", Unit, Unit)>> ] ]
    /\ bin \in {NoStock, SplitStock, FullStock}
    /\ sn = <<>>
    /\ mem = [ p \in PickLists |-> IdleMem ]
    /\ over_delivery_receipt_allowance = 0
    /\ InitRefs
    /\ alloc_in = NoAlloc
    /\ alloc = [ r \in Runs |-> alloc_start(Line("Kg", Unit, 0), <<>>, 0) ]

\* the other pick list stays the draft it is
NextLines ==
    \/ Engine("PL1") \/ Commit("PL1") \/ Abort("PL1")
    \/ \E b \in {NoStock, SplitStock, FullStock} : StockChange(b)

SpecLines == InitLines /\ [][NextLines]_vars

----------------------------------------------------------------------------
(* The serialized item: two pick lists of item S, and its serial numbers   *)
(* coming into and leaving the warehouses                                  *)

\* a requirement line of qty of the serialized item S, not yet allocated
SerialItemLine(qty) == Row("S", "Nos", Unit, qty, qty, 0, None, None, None)

\* k Serial No rows named by their order of creation, by turns in W1 and W2
SerialNos(k) ==
    [n \in 1..k |-> [ name |-> n, warehouse |-> IF n % 2 = 1 THEN "W1" ELSE "W2" ]]

\* a serial number that was delivered: it is in no warehouse
DeliveredSerialNo == [ name |-> 0, warehouse |-> None ]

SerialStocks ==
    { SerialNos(k) : k \in 0..(MaxReq + 2) }
    \cup { <<DeliveredSerialNo>> \o SerialNos(MaxReq + 1) }

\* the lines of a new pick list of item S: one line, or a line of 1 and a
\* line made from a Sales Order row
SerialDraftChoices ==
    { <<SerialItemLine(q * Unit)>> : q \in 1..MaxReq }
    \cup { <<SerialItemLine(Unit),
             [ SerialItemLine(MaxReq * Unit) EXCEPT !.sales_order_item = "SO2" ]>> }

InitSerial ==
    /\ \E c \in SerialDraftChoices :
          db = [ p \in PickLists |->
                   [ NoDoc EXCEPT !.locations =
                       IF p = "PL1" THEN c ELSE <<SerialItemLine(Unit)>> ] ]
    /\ bin = NoStock
    /\ sn \in SerialStocks
    /\ mem = [ p \in PickLists |-> IdleMem ]
    /\ over_delivery_receipt_allowance = 0
    /\ InitRefs
    /\ alloc_in = NoAlloc
    /\ alloc = [ r \in Runs |-> alloc_start(Line("Kg", Unit, 0), <<>>, 0) ]

\* stock movements outside the pick lists change the Serial No table
SerialChange(t) ==
    /\ hook.raised = "none"
    /\ sn # t
    /\ sn' = t
    /\ UNCHANGED <<db, bin, mem, allocVars, refVars>>

NextSerial ==
    \/ \E p \in PickLists : Engine(p) \/ Commit(p) \/ Submit(p)
    \/ \E t \in SerialStocks : SerialChange(t)

SpecSerial == InitSerial /\ [][NextSerial]_vars

----------------------------------------------------------------------------
(* The hooks: saved pick lists for the rows of two Sales Orders are         *)
(* submitted, edited after submit, re-allocated and cancelled              *)

\* a saved row: allocated from W1, picked_qty as the user entered it
BundleRow(item_code, packed_item, stock_qty, picked_qty) ==
    Row(item_code, "Kg", Unit, stock_qty, stock_qty, picked_qty, "W1", packed_item, "SO1")

OrderRow(stock_qty, picked_qty) ==
    Row("A", "Kg", Unit, stock_qty, stock_qty, picked_qty, "W1", "SO2", None)

\* picked quantities a user enters on a row of a submitted pick list
PickedEdits == {5 * Unit}

HookDrafts ==
    { <<BundleRow("A", "PKA", 6 * Unit, pa), BundleRow("B", "PKB", 9 * Unit, pb)>> \o tl
      : pa \in {5 * Unit, 6 * Unit},
        pb \in {7 * Unit, 9 * Unit - 1},
        tl \in { <<>>, <<OrderRow(2 * Unit, 2 * Unit)>>,
                 <<BundleRow("C", "PKC", Unit, Unit)>> } }

InitHooks ==
    /\ \E c \in HookDrafts :
          db = [ p \in PickLists |->
                   [ NoDoc EXCEPT !.saved = TRUE,
                                  !.locations =
                                      IF p = "PL1" THEN c
                                      ELSE <<OrderRow(2 * Unit, 0)>> ] ]
    /\ bin = NoStock
    /\ sn = <<>>
    /\ mem = [ p \in PickLists |-> IdleMem ]
    /\ over_delivery_receipt_allowance \in {0, 50}
    /\ InitRefs
    /\ alloc_in = NoAlloc
    /\ alloc = [ r \in Runs |-> alloc_start(Line("Kg", Unit, 0), <<>>, 0) ]

\* a save of a submitted pick list on which the user changed the picked_qty of
\* row n (on_update_after_submit, lines 101-106; before_save does not run)
UpdateAfterSubmit(p, n, q) ==
    /\ hook.raised = "none"
    /\ mem[p].pc = "idle"
    /\ db[p].docstatus = 1
    /\ n <= Len(db[p].locations)
    /\ db[p].locations[n].picked_qty # q
    /\ db' = [ db EXCEPT ![p].locations[n].picked_qty = q ]
    /\ UNCHANGED <<bin, sn, mem, allocVars, refVars>>

NextHooks ==
    \E p \in PickLists :
        \/ Engine(p) \/ Commit(p) \/ Submit(p) \/ Cancel(p)
        \/ \E n \in 1..3, q \in PickedEdits : UpdateAfterSubmit(p, n, q)

SpecHooks == InitHooks /\ [][NextHooks]_vars

----------------------------------------------------------------------------
(* Properties of the allocator (SpecAlloc) *)

\* the requirement line with its conversion_factor replaced by the factor an
\* unset or zero one is said to count as
with_factor_or_1(item_doc) ==
    [item_doc EXCEPT !.conversion_factor = conversion_factor_or_1(@)]

\* C9 as claimed: for a requirement whose UOM must be a whole number, a run
\* that has left the loop emitted only rows with a whole qty and with
\* stock_qty = qty x conversion_factor, an unset or zero conversion_factor
\* counting as 1, that is: the run ends as the run with the factor 1 ends.
C9_WholeNumberRows ==
    \A r \in Runs :
        (must_be_whole_number(alloc_in.item_doc.uom) /\ alloc[r].pc # "loop") =>
            /\ \A n \in 1..Len(alloc[r].locations) :
                  /\ alloc[r].locations[n].qty % Unit = 0
                  /\ alloc[r].locations[n].stock_qty * Unit =
                        alloc[r].locations[n].qty
                        * conversion_factor_or_1(alloc_in.item_doc.conversion_factor)
            /\ alloc[r] = get_items_with_location_and_quantity(
                              with_factor_or_1(alloc_in.item_doc),
                              alloc_in.queue, alloc_in.docstatus)

last_used(run, queue) ==
    CHOOSE k \in 1..Len(queue) :
        queue[k].warehouse = run.locations[Len(run.locations)].warehouse

\* C12 as claimed: when a run has returned rows and its last used candidate
\* was only partly consumed, the queue it leaves starts with that candidate
\* shrunk to its original qty minus the qty taken from it, followed by the
\* candidates behind it, untouched and in their original order; 10 against
\* [(W1, 4), (W2, 20)] gives rows (W1, 4), (W2, 6) and the queue [(W2, 14)].
C12_SpliceBackToFront ==
    \A r \in Runs :
        (alloc[r].pc = "returned" /\ alloc[r].locations # <<>>) =>
            LET k == last_used(alloc[r], alloc_in.queue)
                taken == SumSeq(SelectSeq(alloc[r].locations,
                                    LAMBDA l : l.warehouse = alloc_in.queue[k].warehouse),
                                "stock_qty")
                left == alloc_in.queue[k].qty - taken
            IN  left > 0 =>
                    alloc[r].available_locations =
                        <<[alloc_in.queue[k] EXCEPT !.qty = left]>>
                        \o SubSeq(alloc_in.queue, k + 1, Len(alloc_in.queue))

\* the quantity a call starts to allocate: the line's stock_qty, or its qty
\* for a line of a submitted pick list that the fallback left at 0
required_stock_qty ==
    IF alloc_in.docstatus = 1 /\ alloc_in.item_doc.stock_qty = 0
    THEN alloc_in.item_doc.qty ELSE alloc_in.item_doc.stock_qty

\* position in the original queue of the candidate of a warehouse
queue_index(w) == CHOOSE k \in 1..Len(alloc_in.queue) : alloc_in.queue[k].warehouse = w

\* what the rows of a run have taken from a warehouse
taken_from(run, w) ==
    SumSeq(SelectSeq(run.locations, LAMBDA l : l.warehouse = w), "stock_qty")

\* C21 as claimed: a call that returns with a remaining quantity above 0 has
\* emptied the item's queue, for whole-number UOMs too.
C21_StopCondition ==
    \A r \in Runs :
        (alloc[r].pc = "returned" /\ alloc[r].remaining_stock_qty > 0) =>
            alloc[r].available_locations = <<>>

C23_FifoConsumption ==
    \A r \in Runs :
        /\ \A m \in 1..Len(alloc[r].locations), n \in 1..Len(alloc[r].locations) :
              m < n => queue_index(alloc[r].locations[m].warehouse)
                          <= queue_index(alloc[r].locations[n].warehouse)
        /\ \A n \in 1..Len(alloc[r].locations) :
              \A j \in 1..(queue_index(alloc[r].locations[n].warehouse) - 1) :
                  taken_from(alloc[r], alloc_in.queue[j].warehouse) = alloc_in.queue[j].qty

\* C23 witness: a run took all of the first candidate and then a part of the
\* second
C23_Witness ==
    \E r \in Runs :
        /\ alloc[r].pc = "returned"
        /\ Len(alloc[r].locations) = 2
        /\ alloc[r].locations[1].warehouse = "W1"
        /\ alloc[r].locations[1].stock_qty = alloc_in.queue[1].qty
        /\ alloc[r].locations[2].warehouse = "W2"
        /\ alloc[r].locations[2].stock_qty < alloc_in.queue[2].qty

\* C27: for a UOM that need not be whole, the rows of a call that returned
\* total min(required stock quantity, total of the queue before the call),
\* and the queue's total is lower by exactly that.
C27_ExactFill ==
    \A r \in Runs :
        (alloc[r].pc = "returned" /\ ~must_be_whole_number(alloc_in.item_doc.uom)) =>
            /\ SumSeq(alloc[r].locations, "stock_qty")
                  = Min(required_stock_qty, SumSeq(alloc_in.queue, "qty"))
            /\ SumSeq(alloc[r].available_locations, "qty")
                  = SumSeq(alloc_in.queue, "qty") - SumSeq(alloc[r].locations, "stock_qty")

\* C27 witness: a call for less than the queue holds returned rows from two
\* candidates and left the rest of the second
C27_Witness ==
    \E r \in Runs :
        /\ alloc[r].pc = "returned"
        /\ ~must_be_whole_number(alloc_in.item_doc.uom)
        /\ Len(alloc[r].locations) = 2
        /\ SumSeq(alloc[r].locations, "stock_qty") = required_stock_qty
        /\ required_stock_qty < SumSeq(alloc_in.queue, "qty")
        /\ alloc[r].available_locations # <<>>

C28_Termination ==
    <>(\A r \in Runs : alloc[r].pc \in {"returned", "raised"})

\* C28 witness: a call for a whole-number UOM returned after it had put the
\* rest of a candidate back and popped it again
C28_Witness ==
    \E r \in Runs :
        /\ alloc[r].pc = "returned"
        /\ must_be_whole_number(alloc_in.item_doc.uom)
        /\ alloc[r].locations # <<>>
        /\ alloc[r].remaining_stock_qty > 0
        /\ taken_from(alloc[r], "W1") < alloc_in.queue[1].qty
        /\ \A n \in 1..Len(alloc[r].available_locations) :
              alloc[r].available_locations[n].warehouse # "W1"

----------------------------------------------------------------------------
(* Properties of set_item_locations (Spec) *)

\* stock_qty of the rows of item_code in warehouse, summed
assigned_qty(locations, item_code, warehouse) ==
    SumSeq(SelectSeq(locations,
               LAMBDA l : l.item_code = item_code /\ l.warehouse = warehouse),
           "stock_qty")

\* the quantity the candidate list shows for the warehouse, 0 if it has none
on_hand_qty(candidates, warehouse) ==
    SumSeq(SelectSeq(candidates, LAMBDA c : c.warehouse = warehouse), "qty")

\* C1 as claimed: after set_item_locations, for every requirement line of a
\* pick list of any docstatus, the stock_qty of the rows made for the line sum
\* to at most the line's stock_qty x (1 + allowance).
C1_Conservation ==
    \A p \in PickLists :
        mem[p].pc = "allocated" =>
            \A i \in 1..Len(mem[p].items) :
                SumSeq(mem[p].per_line[i], "stock_qty") * 100
                    <= mem[p].items[i].stock_qty * (100 + over_delivery_receipt_allowance)

\* C1 amended: the rows made for a line sum to at most the line's stock_qty,
\* except for a line of a submitted pick list whose stored stock_qty is 0,
\* where they sum to at most the line's qty.
C1_ConservationAmended ==
    \A p \in PickLists :
        mem[p].pc = "allocated" =>
            \A i \in 1..Len(mem[p].items) :
                SumSeq(mem[p].per_line[i], "stock_qty")
                    <= IF db[p].docstatus = 1 /\ mem[p].items[i].stock_qty = 0
                       THEN mem[p].items[i].qty
                       ELSE mem[p].items[i].stock_qty

\* C1 witness: a submitted pick list zeroed by the out-of-stock fallback has
\* been given rows again
C1_Witness ==
    \E p \in PickLists :
        /\ mem[p].pc = "allocated"
        /\ db[p].docstatus = 1
        /\ mem[p].items # <<>>
        /\ mem[p].items[1].stock_qty = 0
        /\ mem[p].per_line[1] # <<>>

\* C2 as claimed: when the runs of two pick lists overlap and both read the
\* stock the Bin table holds, the stock_qty they allocate of an item sums to at
\* most the item's stock.
C2_NoDoubleClaim ==
    \A c \in BinItems :
        ( /\ \A p \in PickLists :
                /\ mem[p].pc = "allocated"
                /\ c \in DOMAIN mem[p].fetched
                /\ \A n \in 1..Len(mem[p].fetched[c]) :
                      bin[c][mem[p].fetched[c][n].warehouse] = mem[p].fetched[c][n].qty )
        => SumSet([p \in PickLists |->
                      SumSeq(SelectSeq(mem[p].locations, LAMBDA l : l.item_code = c),
                             "stock_qty")],
                  PickLists)
           <= SumSet(bin[c], DOMAIN bin[c])

\* C3 as claimed: a run that overlaps no other run and finds that other open
\* pick lists hold q of an item in a warehouse assigns from the warehouse at
\* most its on-hand quantity minus q.
C3_ClaimedStockNotAllocated ==
    \A p \in PickLists :
        (mem[p].pc = "allocated" /\ mem[p].alone) =>
            \A d \in mem[p].picked_items_details :
                d.item_code \in DOMAIN mem[p].fetched =>
                    assigned_qty(mem[p].locations, d.item_code, d.warehouse) + d.picked_qty
                        <= IF on_hand_qty(mem[p].fetched[d.item_code], d.warehouse) >= d.picked_qty
                           THEN on_hand_qty(mem[p].fetched[d.item_code], d.warehouse)
                           ELSE d.picked_qty

\* C4 as claimed: from the read of a run until the run commits or aborts, no
\* other run commits an allocation of an item the run allocates.
C4_LockingRead ==
    [][ \A p \in PickLists, q \in PickLists :
          ( /\ p # q
            /\ mem[p].pc = "allocated"
            /\ \E i \in 1..Len(mem[p].items), j \in 1..Len(mem[q].locations) :
                  mem[p].items[i].item_code = mem[q].locations[j].item_code )
          => ~(mem[q].pc = "allocated" /\ mem'[q].pc = "idle") ]_vars

\* the exceptions of the validation: a line without item code, no for_qty
ValidationErrors ==
    {"Item Code is Mandatory", "Qty of Finished Goods Item should be greater than 0."}

\* the pick list is for manufacture and has no for_qty
without_for_qty(doc) ==
    doc.purpose = "Material Transfer for Manufacture" /\ doc.for_qty = 0

\* the document fails the validation of set_item_locations
fails_validation(doc) ==
    \/ without_for_qty(doc)
    \/ \E n \in 1..Len(doc.locations) : doc.locations[n].item_code = None

\* a row without its quantities
without_qty(row) == [row EXCEPT !.qty = 0, !.stock_qty = 0]

\* C11 as claimed: the rows set_item_locations produced, merged again by the
\* aggregator (key: item, UOM, warehouse, batch, reference), are the same
\* rows with the same qty and stock_qty: none are merged, no quantity changes.
C11_IdempotentRemerge ==
    \A p \in PickLists :
        mem[p].pc = "allocated" =>
            aggregate_item_qty(mem[p].locations).items = mem[p].locations

\* C14 as claimed: when a run on a submitted pick list allocates no row, the
\* locations are the previous rows, each with stock_qty = 0 and picked_qty = 0,
\* and the out-of-stock message is shown; a submitted pick list that had rows
\* has rows after the run.
C14_ZeroRowFallback ==
    \A p \in PickLists :
        (mem[p].pc = "allocated" /\ db[p].docstatus = 1) =>
            /\ (\A i \in 1..Len(mem[p].per_line) : mem[p].per_line[i] = <<>>) =>
                  /\ mem[p].locations =
                        [n \in 1..Len(db[p].locations) |-> zeroed(db[p].locations[n])]
                  /\ \E m \in 1..Len(mem[p].msgs) : mem[p].msgs[m] = "Out of Stock"
            /\ db[p].locations # <<>> => mem[p].locations # <<>>

\* the message is among the messages shown
shown(msgs, title) == \E m \in 1..Len(msgs) : msgs[m] = title

\* the quantity the provider of item c was asked for: item_count_map[c]
required_qty_of(items, c) ==
    SumSeq(SelectSeq(items, LAMBDA i : i.item_code = c), "stock_qty")

\* C15 as claimed: get_available_item_locations shows the insufficient-stock
\* message exactly when the provider's candidates total less than the required
\* quantity; it shows the already-picked message only when picked details were
\* supplied, candidates were removed by the filter and the rest is still
\* short; the run goes on with the candidates it returns.
C15_SoftShortfall ==
    \A p \in PickLists :
        mem[p].pc = "allocated" =>
            \A c \in DOMAIN mem[p].provided :
                LET required_qty == required_qty_of(mem[p].items, c)
                    details == { d \in mem[p].picked_items_details : d.item_code = c }
                IN  /\ shown(mem[p].msgs, "Insufficient Stock")
                          <=> SumSeq(mem[p].provided[c], "qty") < required_qty
                    /\ shown(mem[p].msgs, "Already Picked") =>
                          /\ details # {}
                          /\ mem[p].fetched[c] # mem[p].provided[c]
                          /\ SumSeq(mem[p].fetched[c], "qty") < required_qty
                    /\ mem[p].fetched[c] =
                          IF details # {}
                          THEN SelectSeq(mem[p].provided[c], LAMBDA l : l.qty >= Unit)
                          ELSE mem[p].provided[c]

\* C15 amended: the already-picked message is shown exactly when picked
\* details were supplied and the candidates left by the filter total less than
\* the required quantity, whether or not the filter removed a candidate; the
\* rest as claimed.
C15_SoftShortfallAmended ==
    \A p \in PickLists :
        mem[p].pc = "allocated" =>
            \A c \in DOMAIN mem[p].provided :
                LET required_qty == required_qty_of(mem[p].items, c)
                    details == { d \in mem[p].picked_items_details : d.item_code = c }
                IN  /\ shown(mem[p].msgs, "Insufficient Stock")
                          <=> SumSeq(mem[p].provided[c], "qty") < required_qty
                    /\ shown(mem[p].msgs, "Already Picked")
                          <=> /\ details # {}
                              /\ SumSeq(mem[p].fetched[c], "qty") < required_qty
                    /\ mem[p].fetched[c] =
                          IF details # {}
                          THEN SelectSeq(mem[p].provided[c], LAMBDA l : l.qty >= Unit)
                          ELSE mem[p].provided[c]

\* C15 witness: both messages were shown, the filter had removed a candidate
\* and the run went on
C15_Witness ==
    \E p \in PickLists :
        /\ mem[p].pc = "allocated"
        /\ shown(mem[p].msgs, "Insufficient Stock")
        /\ shown(mem[p].msgs, "Already Picked")
        /\ Len(mem[p].fetched["A"]) < Len(mem[p].provided["A"])

\* C16 as claimed: a run on a document with a line without item code, or with
\* the purpose Material Transfer for Manufacture and no for_qty, raises the
\* validation error before a provider is called and before the existing
\* locations are removed or changed.
C16_ValidationAbortsFirst ==
    \A p \in PickLists :
        (mem[p].pc # "idle" /\ fails_validation(db[p])) =>
            /\ mem[p].pc = "raised"
            /\ mem[p].raised \in ValidationErrors
            /\ mem[p].fetched = <<>>
            /\ mem[p].locations = db[p].locations

\* C16 amended: the run raises the validation error before a provider is
\* called and before a location is removed; no row is removed or replaced, but
\* the lines in front of a line without item code have been merged in memory
\* (qty and stock_qty of a line added to the first line with the same key);
\* without for_qty the locations are unchanged.
C16_ValidationAbortsFirstAmended ==
    \A p \in PickLists :
        (mem[p].pc # "idle" /\ fails_validation(db[p])) =>
            /\ mem[p].pc = "raised"
            /\ mem[p].raised \in ValidationErrors
            /\ mem[p].fetched = <<>>
            /\ Len(mem[p].locations) = Len(db[p].locations)
            /\ \A n \in 1..Len(db[p].locations) :
                  /\ without_qty(mem[p].locations[n]) = without_qty(db[p].locations[n])
                  /\ mem[p].locations[n].qty >= db[p].locations[n].qty
            /\ without_for_qty(db[p]) => mem[p].locations = db[p].locations

\* C16 witness: a line without item code ended the run after two lines in
\* front of it were merged
C16_Witness ==
    \E p \in PickLists :
        /\ mem[p].pc = "raised"
        /\ mem[p].raised = "Item Code is Mandatory"
        /\ mem[p].locations # db[p].locations

\* the rows of the Pick List Item table of the pick lists other than self
\* whose status is neither Completed nor Cancelled
open_rows_of_others(self) ==
    { e \in { <<q, n>> : q \in PickLists \ {self}, n \in 1..3 } :
        /\ db[e[1]].saved
        /\ e[2] <= Len(db[e[1]].locations)
        /\ db[e[1]].status \notin {"Completed", "Cancelled"} }

\* C17: for the requested item and each warehouse, the picked_qty that
\* get_picked_items_details returns to a run is the sum, over the rows of the
\* other pick lists whose status is neither Completed nor Cancelled, of
\* picked_qty when it is positive and of stock_qty otherwise; own rows and
\* rows of completed or cancelled pick lists add nothing.
C17_ClaimedAggregation ==
    [][ \A p \in PickLists :
          (mem[p].pc = "idle" /\ mem'[p].pc = "allocated" /\ mem'[p].items # <<>>) =>
              /\ \A d \in mem'[p].picked_items_details :
                    d.item_code = "A" /\ d.batch_no = None
              /\ \A w \in {"W1", "W2", None} :
                    LET entries == { d \in mem'[p].picked_items_details : d.warehouse = w }
                        rows == { e \in open_rows_of_others(p) :
                                    /\ db[e[1]].locations[e[2]].item_code = "A"
                                    /\ db[e[1]].locations[e[2]].warehouse = w }
                    IN  /\ Cardinality(entries) <= 1
                        /\ SumSet([d \in entries |-> d.picked_qty], entries)
                             = SumSet([e \in rows |->
                                         IF db[e[1]].locations[e[2]].picked_qty > 0
                                         THEN db[e[1]].locations[e[2]].picked_qty
                                         ELSE db[e[1]].locations[e[2]].stock_qty],
                                      rows) ]_vars

\* C17 witness: a run was given the quantity another open pick list holds in
\* two rows of one warehouse, one of them with a picked_qty
C17_Witness ==
    \E p \in PickLists :
        /\ mem[p].pc = "allocated"
        /\ \E d \in mem[p].picked_items_details, q \in PickLists \ {p} :
              /\ db[q].status \in {"Draft", "Open"}
              /\ db[q].saved
              /\ Len(db[q].locations) = 2
              /\ db[q].locations[1].warehouse = d.warehouse
              /\ db[q].locations[2].warehouse = d.warehouse
              /\ d.picked_qty = db[q].locations[1].stock_qty + db[q].locations[2].stock_qty

\* C18: after a run, normal result and zero-row fallback alike, every row of
\* locations has picked_qty <= stock_qty.
C18_ClampedPickedQty ==
    \A p \in PickLists :
        mem[p].pc = "allocated" =>
            \A n \in 1..Len(mem[p].locations) :
                mem[p].locations[n].picked_qty <= mem[p].locations[n].stock_qty

\* C18 witness: a row whose picked_qty was above the stock_qty it was given
\* has been clamped
C18_Witness ==
    \E p \in PickLists :
        /\ mem[p].pc = "allocated"
        /\ mem[p].locations # <<>>
        /\ db[p].locations[1].picked_qty > mem[p].locations[1].stock_qty
        /\ mem[p].locations[1].stock_qty > 0
        /\ mem[p].locations[1].picked_qty = mem[p].locations[1].stock_qty

\* C19: in one run, the stock_qty assigned from a warehouse to all lines of an
\* item is at most the qty of the warehouse's candidate as the provider
\* returned it at the start of the run.
C19_NoDoubleAssignment ==
    \A p \in PickLists :
        mem[p].pc = "allocated" =>
            \A c \in DOMAIN mem[p].fetched :
                \A w \in {"W1", "W2"} :
                    SumSeq([i \in 1..Len(mem[p].per_line) |->
                               [ stock_qty |->
                                   IF mem[p].items[i].item_code = c
                                   THEN SumSeq(SelectSeq(mem[p].per_line[i],
                                                   LAMBDA l : l.warehouse = w),
                                               "stock_qty")
                                   ELSE 0 ]],
                           "stock_qty")
                        <= on_hand_qty(mem[p].fetched[c], w)

\* C19 witness: two lines of the item were given stock of the same warehouse,
\* together all of it
C19_Witness ==
    \E p \in PickLists :
        /\ mem[p].pc = "allocated"
        /\ Len(mem[p].per_line) = 2
        /\ mem[p].per_line[1] # <<>> /\ mem[p].per_line[2] # <<>>
        /\ mem[p].per_line[1][1].warehouse = "W1"
        /\ mem[p].per_line[2][1].warehouse = "W1"
        /\ on_hand_qty(mem[p].fetched["A"], "W1")
              = mem[p].per_line[1][1].stock_qty + mem[p].per_line[2][1].stock_qty

----------------------------------------------------------------------------
(* Properties of the lines of a draft (SpecLines) *)

\* the lines of a draft that aggregation keeps: of a stock item or of an
\* item with a Product Bundle
retained_lines(locations) ==
    SelectSeq(locations,
              LAMBDA l : l.item_code \in {"A", "B", "C", "S"}
                         \/ l.item_code \in DOMAIN ProductBundle)

\* item, UOM, warehouse, batch and reference of a line
line_key(l) ==
    <<l.item_code, l.uom, l.warehouse, l.batch_no,
      IF l.sales_order_item # None THEN l.sales_order_item
      ELSE l.material_request_item>>

\* the lines of a sequence that have the key k
lines_of_key(lines, k) == SelectSeq(lines, LAMBDA l : line_key(l) = k)

\* C24: once a run has aggregated the lines of its document, it holds exactly
\* one line for each key (item, UOM, warehouse, batch, reference) of the lines
\* of a stock or bundle item, that line carries the sums of qty and stock_qty
\* of the kept lines with its key, and item_count_map holds for every item the
\* sum of stock_qty of its kept lines
C24_Aggregation ==
    \A p \in PickLists :
        mem[p].pc = "allocated" =>
            LET kept == retained_lines(db[p].locations)
                items == mem[p].items
            IN  /\ { line_key(items[i]) : i \in 1..Len(items) }
                     = { line_key(kept[n]) : n \in 1..Len(kept) }
                /\ \A i, j \in 1..Len(items) :
                       line_key(items[i]) = line_key(items[j]) => i = j
                /\ \A i \in 1..Len(items) :
                       /\ items[i].qty
                            = SumSeq(lines_of_key(kept, line_key(items[i])), "qty")
                       /\ items[i].stock_qty
                            = SumSeq(lines_of_key(kept, line_key(items[i])), "stock_qty")
                /\ \A c \in DOMAIN mem[p].item_count_map :
                       mem[p].item_count_map[c]
                         = SumSeq(SelectSeq(kept, LAMBDA l : l.item_code = c),
                                  "stock_qty")

\* C24 witness: a run aggregated a draft of two lines with the same key into
\* one line of their sum
C24_Witness ==
    /\ mem["PL1"].pc = "allocated"
    /\ Len(db["PL1"].locations) = 2
    /\ line_key(db["PL1"].locations[1]) = line_key(db["PL1"].locations[2])
    /\ db["PL1"].locations[1].warehouse # None
    /\ Len(mem["PL1"].items) = 1
    /\ mem["PL1"].items[1].stock_qty = 2 * Unit

\* the stock of an item in all its Bins
total_actual_qty(item_code) ==
    SumSeq([n \in 1..Len(BinOrder) |-> [ qty |-> bin[item_code][BinOrder[n]] ]], "qty")

\* C25: whenever a run asks a provider for a required quantity above 0, the
\* candidates the provider returns total at least the smaller of the required
\* quantity and the stock of the item, the cap of the fetch notwithstanding
C25_FetchCapOnlyOptimization ==
    [][ \A p \in PickLists :
            (mem[p].pc = "idle" /\ mem'[p].pc = "allocated") =>
                \A c \in DOMAIN mem'[p].provided \cap DOMAIN bin :
                    mem'[p].item_count_map[c] > 0 =>
                        SumSeq(mem'[p].provided[c], "qty")
                          >= Min(mem'[p].item_count_map[c], total_actual_qty(c)) ]_vars

\* the picked quantities a user can enter on a row
PickedQtys == {0, Unit \div 2, Unit}

\* item, warehouse, UOM, batch and reference of a row
row_key(l) ==
    <<l.item_code, l.warehouse, l.uom, l.batch_no,
      IF l.sales_order_item # None THEN l.sales_order_item
      ELSE l.material_request_item>>

\* the rows a run leaves when it is run on the document of p holding the
\* given rows, the stock and the other pick lists being as they are
rerun(p, rows) == set_item_locations_of(p, [ db[p] EXCEPT !.locations = rows ])

----------------------------------------------------------------------------
(* Properties of the serialized provider (SpecSerial) *)

\* the Serial No rows that are in a warehouse
in_stock == SelectSeq(sn, LAMBDA r : r.warehouse # None)

\* the picked_qty the run was given for the other pick lists
total_picked_qty_of(details) == SumSet([d \in details |-> d.picked_qty], details)

C20_RestockRecovery ==
    [][ \A p \in PickLists :
          ( /\ mem[p].pc = "idle" /\ mem'[p].pc = "allocated"
            /\ db[p].docstatus = 1
            /\ db[p].locations # <<>>
            /\ db[p].locations[1].stock_qty = 0
            /\ db[p].locations[1].qty > 0
            /\ in_stock # <<>> ) =>
              /\ SumSeq(mem'[p].locations, "stock_qty") > 0
              /\ SumSeq(mem'[p].locations, "stock_qty") <= db[p].locations[1].qty ]_vars

\* the qty of the candidate of this run that a bundle was made for
bundle_qty(candidates, name) ==
    SumSeq(SelectSeq(candidates, LAMBDA l : l.serial_and_batch_bundle = name), "qty")

\* C29 as claimed: after a run that allocated, every row that names a Serial
\* and Batch Bundle has the stock_qty the bundle was made for, and no two rows
\* name the same bundle, also when a candidate is split across two lines.
C29_BundleMatchesRow ==
    \A p \in PickLists :
        (mem[p].pc = "allocated"
         /\ \E i \in 1..Len(mem[p].per_line) : mem[p].per_line[i] # <<>>) =>
            \A n \in 1..Len(mem[p].locations) :
                LET row == mem[p].locations[n]
                IN  row.serial_and_batch_bundle # None =>
                        /\ row.stock_qty =
                              bundle_qty(mem[p].provided["S"], row.serial_and_batch_bundle)
                        /\ \A k \in 1..Len(mem[p].locations) :
                              k # n => mem[p].locations[k].serial_and_batch_bundle
                                          # row.serial_and_batch_bundle

----------------------------------------------------------------------------
(* Properties of on_submit and on_cancel (SpecHooks) *)

\* the Sales Order Item rows that are bundle parents
BundleParents ==
    { r \in DOMAIN sales_order_item_code : product_bundle_exists(sales_order_item_code[r]) }

\* the bundle count update_bundle_picked_qty computes from the rows for parent r
bundle_count(locations, r) ==
    IF r \in get_product_bundles(locations)
    THEN compute_picked_qty_for_bundle(locations, r, ProductBundle[sales_order_item_code[r]])
    ELSE 0

picked_qtys(locations) == [ n \in 1..Len(locations) |-> locations[n].picked_qty ]

\* C5 as claimed: the hook is rejected with the over-allocation error exactly
\* when, for one of the references the guard is given, the summed picked_qty
\* exceeds the summed stock_qty x (1 + allowance / 100), a summed stock_qty of
\* 0 included; otherwise the hook ends without any error.
C5_OverAllocationGuard ==
    hook.op # "none" =>
        /\ hook.raised \in {"none", "OverAllocation"}
        /\ hook.raised = "OverAllocation" <=>
              \E row \in hook.data :
                  row.picked_qty * 100
                      > row.stock_qty * (100 + over_delivery_receipt_allowance)

\* C6 as claimed: when the guard rejects on_submit or on_cancel, the picked
\* counter of the bundle parents, the picked_qty of every Packed Item and of
\* every Sales Order Item are what they were before the hook started.
C6_AtomicAbort ==
    hook.raised = "OverAllocation" =>
        /\ so_picked_qty = hook.so_before
        /\ packed_picked_qty = hook.packed_before

\* C7 as claimed: on_submit raises the counter of a bundle parent by the
\* whole-number part of the minimum over the parent's rows of picked_qty /
\* quantity per bundle (0 for a row without a quantity per bundle): 2 A + 3 B
\* per bundle with 5 A and 7 B picked give 2.
C7_BundleMinimum ==
    (hook.op = "on_submit" /\ hook.raised = "none") =>
        \A r \in get_product_bundles(hook.at_submit[hook.doc]) :
            LET m == MinRatio(possible_bundles(hook.at_submit[hook.doc], r,
                                  ProductBundle[sales_order_item_code[r]]))
            IN  so_picked_qty[r] - hook.so_before[r] = (m[1] \div m[2]) * Unit

\* C8: on_submit adds the bundle count to the parent's counter and on_cancel
\* subtracts it: as long as no hook failed and every cancelled pick list was
\* cancelled with the picked quantities it was submitted with, the counter is
\* the sum of the bundle counts of the pick lists that are submitted now.
C8_BundleDeltaDirection ==
    \A r \in BundleParents :
        ( /\ hook.raised = "none"
          /\ \A p \in PickLists :
                db[p].docstatus = 2 =>
                    picked_qtys(db[p].locations) = picked_qtys(hook.at_submit[p]) )
        => so_picked_qty[r] =
              SumSet([p \in PickLists |-> bundle_count(hook.at_submit[p], r) * Unit],
                     { p \in PickLists : db[p].docstatus = 1 })

\* C8 witness: a pick list that added two bundles at submit has been cancelled
\* with the same picked quantities and the counter is back at 0
C8_Witness ==
    /\ hook.op = "on_cancel"
    /\ hook.raised = "none"
    /\ db[hook.doc].docstatus = 2
    /\ picked_qtys(db[hook.doc].locations) = picked_qtys(hook.at_submit[hook.doc])
    /\ bundle_count(hook.at_submit[hook.doc], "SO1") = 2
    /\ hook.so_before["SO1"] = 2 * Unit
    /\ so_picked_qty["SO1"] = 0

====
